---- MODULE Spec2Model ----
\* BB84 key distribution simulator (src/bb84): the protocol engine with and
\* without the intercept-resend eavesdropper, and the probability sweep; and
\* the dashboard (src/UI/app.py) that derives an AES key from a run's key.
\*
\* One call of the public API is one behaviour: Init is the state before the
\* call, Call fixes the function and its arguments, one action performs the
\* whole of run_experiment, run_bb84, run_bb84_with_eve or bb84_protocol, and
\* run_eve_sweep advances one loop iteration per step.  Every value the code takes from numpy's random
\* generator is an input of the action, chosen with \E exactly where the code
\* draws it: a draw the code does not make has no value in the model.
\*
\* Numbers.  Bits and bases are 0/1 as in the code (0 = Z, 1 = X).
\* A probability is an integer p standing for p / Scale, and a value of
\* np.random.random() is u in 0..Scale-1 standing for u / Scale in [0,1).
\* A float that is a quotient of integers is an exact fraction <<num, den>>
\* in lowest terms; NaN is the result of 0/0.
EXTENDS Integers, Sequences, FiniteSets, TLC

\* ---------------------------------------------------------------- bounds
MaxQubits == 2
MaxLen == 2
Scale == 2
MaxTrials == 2
MaxProbs == 2
MaxSliderSteps == 2

\* ---------------------------------------------------------------- values
Bit == {0, 1}
\* An optional argument is the empty set (None) or the set of its one value.
None == {}
Some(x) == {x}
TheValue(opt) == CHOOSE x \in opt : TRUE
NaN == "nan"

BitSeqs(n) == [1..n -> Bit]
BitSeqsUpTo(n) == UNION {BitSeqs(m) : m \in 0..n}

\* np.random.random(): a value of [0,1), here u / Scale.
Uniform == 0..(Scale - 1)

\* The code only compares a draw with eve_probability, so draws on the same
\* side of it give the same run: the least draw on each side stands for all.
UniformFor(p) ==
    LET below == {u \in Uniform : u < p}
        above == {u \in Uniform : u >= p}
        least(S) == IF S = {} THEN {} ELSE {CHOOSE x \in S : \A y \in S : x <= y}
    IN  least(below) \cup least(above)

\* eve_probability as p / Scale: below 0, 0.0, strictly inside, 1.0, above 1.
ProbSet == {-1, 0, 1, Scale, Scale + 1}
ValidProb(p) == 0 <= p /\ p <= Scale

Min(a, b) == IF a <= b THEN a ELSE b

RECURSIVE GCD(_, _)
GCD(a, b) == IF b = 0 THEN a ELSE GCD(b, a % b)

\* integer / integer as numpy computes it on np.int64 operands: a float, here
\* the exact fraction in lowest terms; 0/0 is nan (numpy warns, does not raise).
Divide(a, b) ==
    IF b = 0 THEN NaN
    ELSE LET g == GCD(a, b) IN <<a \div g, b \div g>>

\* the float literal 0.0
ZeroFloat == <<0, 1>>

\* ------------------------------------------------------- bb84_core.py
\* np.column_stack((bits, bases)): rows (bit, basis). It raises ValueError when
\* the two columns differ in length.
CanStack(bits, bases) == Len(bits) = Len(bases)
encode_qubits(bits, bases) == [i \in 1..Len(bits) |-> <<bits[i], bases[i]>>]

\* Faulty variant of MeasureDraws: a value is drawn at every index the loop
\* reaches, used or not.
MeasureDrawsEvery(qubits, alice_bases, bob_bases) ==
    1..Min(Len(qubits), Len(bob_bases))

\* The indices at which measure_qubits draws np.random.randint(0, 2): those the
\* loop reaches (an index past bob_bases raises IndexError) where bases differ.
MeasureDraws(qubits, alice_bases, bob_bases) ==
    {i \in 1..Min(Len(qubits), Len(bob_bases)) : alice_bases[i] # bob_bases[i]}

\* Faulty variant of measure_qubits: reads column 1 of the qubit rows (the
\* basis) where the code reads column 0 (the bit).
measure_qubits_wrong_column(qubits, alice_bases, bob_bases, rnd) ==
    [i \in 1..Len(qubits) |->
        IF alice_bases[i] = bob_bases[i] THEN qubits[i][2] ELSE rnd[i]]

\* measure_qubits: rnd[i] is the value drawn at index i (i \in MeasureDraws).
measure_qubits(qubits, alice_bases, bob_bases, rnd) ==
    [i \in 1..Len(qubits) |->
        IF alice_bases[i] = bob_bases[i] THEN qubits[i][1] ELSE rnd[i]]

\* Faulty variant of MatchingBases: every index counts as matching, so nothing
\* is sifted out.
MatchingBasesKeepAll(alice_bases, bob_bases) ==
    [i \in 1..Len(alice_bases) |-> TRUE]

\* alice_bases == bob_bases, elementwise
MatchingBases(alice_bases, bob_bases) ==
    [i \in 1..Len(alice_bases) |-> alice_bases[i] = bob_bases[i]]

RECURSIVE MaskSelectFrom(_, _, _)
MaskSelectFrom(arr, mask, i) ==
    IF i > Len(arr) THEN <<>>
    ELSE IF mask[i] THEN <<arr[i]>> \o MaskSelectFrom(arr, mask, i + 1)
    ELSE MaskSelectFrom(arr, mask, i + 1)

\* Faulty variant of MaskSelect: the selected elements in descending index order.
RECURSIVE MaskSelectReversedFrom(_, _, _)
MaskSelectReversedFrom(arr, mask, i) ==
    IF i > Len(arr) THEN <<>>
    ELSE IF mask[i] THEN MaskSelectReversedFrom(arr, mask, i + 1) \o <<arr[i]>>
    ELSE MaskSelectReversedFrom(arr, mask, i + 1)

MaskSelectReversed(arr, mask) == MaskSelectReversedFrom(arr, mask, 1)

\* arr[mask], numpy boolean-mask indexing: the elements at the True positions,
\* in index order.
MaskSelect(arr, mask) == MaskSelectFrom(arr, mask, 1)

\* np.sum(mask)
CountTrue(mask) == Cardinality({i \in 1..Len(mask) : mask[i]})

\* np.sum(alice_sifted_key != bob_sifted_key)
Errors(alice_key, bob_key) ==
    Cardinality({j \in 1..Len(alice_key) : alice_key[j] # bob_key[j]})

\* Faulty variant of QBER: the division without the guard on an empty key.
QBERUnguarded(alice_key, bob_key) ==
    Divide(Errors(alice_key, bob_key), Len(alice_key))

\* Step 8 of bb84_protocol and step 6 of run_bb84_with_eve
QBER(alice_key, bob_key) ==
    IF Len(alice_key) > 0
    THEN Divide(Errors(alice_key, bob_key), Len(alice_key))
    ELSE ZeroFloat

\* The result dictionary of bb84_protocol (bb84_core.py, return statement).
ProtocolResult(num_qubits, alice_bits, alice_bases, bob_bases, bob_bits) ==
    LET matching_bases == MatchingBases(alice_bases, bob_bases)
        alice_sifted_key == MaskSelect(alice_bits, matching_bases)
        bob_sifted_key == MaskSelect(bob_bits, matching_bases)
    IN  [qber |-> QBER(alice_sifted_key, bob_sifted_key),
         alice_key |-> alice_sifted_key,
         bob_key |-> bob_sifted_key,
         matching_bases_count |-> CountTrue(matching_bases),
         total_qubits |-> num_qubits]

\* bb84_protocol on its three sequences (drawn or pre-supplied, equal lengths)
\* and Bob's draws bob_rand: the locals it leaves and the dictionary it returns.
bb84_protocol(num_qubits, alice_bits, alice_bases, bob_bases, bob_rand) ==
    LET alice_qubits == encode_qubits(alice_bits, alice_bases)
        bob_bits == measure_qubits(alice_qubits, alice_bases, bob_bases, bob_rand)
    IN  [locals |-> [alice_bits |-> alice_bits,
                     alice_bases |-> alice_bases,
                     bob_bases |-> bob_bases,
                     bob_bits |-> bob_bits,
                     bob_rand |-> bob_rand],
         result |-> ProtocolResult(num_qubits, alice_bits, alice_bases,
                                   bob_bases, bob_bits)]

\* ------------------------------------------------------- eve_attack.py
\* Faulty variant of Intercepts: <= where the code has <.
InterceptsOrEqual(u, eve_probability) == u <= eve_probability

\* np.random.random() < eve_probability
Intercepts(u, eve_probability) == u < eve_probability

\* The indices Eve intercepts, given the per-qubit draws u.
Intercepted(u, eve_probability) ==
    {i \in DOMAIN u : Intercepts(u[i], eve_probability)}

\* Faulty variant of EveBit: Eve's outcome is the random value whatever the bases.
EveBitAlwaysRandom(alice_bit, alice_basis, eve_basis, eve_rand) == eve_rand

\* Faulty variant of EveBit: the comparison of the bases inverted.
EveBitInverted(alice_bit, alice_basis, eve_basis, eve_rand) ==
    IF eve_basis # alice_basis THEN alice_bit ELSE eve_rand

\* Faulty variant of EveBit: Eve resends Alice's bit whatever she measured.
EveBitKeepsAlice(alice_bit, alice_basis, eve_basis, eve_rand) == alice_bit

\* Eve measures the qubit: her basis against Alice's.
EveBit(alice_bit, alice_basis, eve_basis, eve_rand) ==
    IF eve_basis = alice_basis THEN alice_bit ELSE eve_rand

\* The indices at which Eve draws her random measurement outcome.
EveDraws(alice_bases, eve_basis) ==
    {i \in DOMAIN eve_basis : eve_basis[i] # alice_bases[i]}

\* Faulty variant of InterceptionCount: the count inferred from the bases Eve
\* changed.
InterceptionCountChanged(hit, alice_bases, eve_basis) ==
    Cardinality({i \in hit : eve_basis[i] # alice_bases[i]})

\* interceptions += 1, first statement under the test of the draw: one for
\* every intercepted index, whatever basis Eve then chooses.
InterceptionCount(hit, alice_bases, eve_basis) == Cardinality(hit)

\* numpy arrays are objects, named here by the variable first bound to them.
\* Faulty variant of ArrayCopy: no copy is made, the new name is bound to the
\* same array.
ArrayAlias(arr, fresh) == arr

\* arr.copy(): a new array, fresh, holding the contents of arr.
ArrayCopy(arr, fresh) == fresh

\* eve_intercept_resend: u[i] is the draw deciding the interception of qubit i,
\* eve_basis[i] Eve's basis and eve_rand[i] her outcome on a basis mismatch.
\* The loop writes index i of the arrays bound to modified_bits and
\* modified_bases after it has read alice_bits[i] and alice_bases[i]; the
\* caller's two arrays are returned as the call leaves them.
eve_intercept_resend(alice_qubits, alice_bases, eve_probability, u, eve_basis, eve_rand) ==
    LET num_qubits == Len(alice_qubits)
        alice_bits == [i \in 1..num_qubits |-> alice_qubits[i][1]]
        hit == Intercepted(u, eve_probability)
        eve_bit(i) == EveBit(alice_bits[i], alice_bases[i], eve_basis[i],
                             IF i \in DOMAIN eve_rand THEN eve_rand[i] ELSE 0)
        modified_bits == [i \in 1..num_qubits |->
                             IF i \in hit THEN eve_bit(i) ELSE alice_bits[i]]
        modified_bases == [i \in 1..num_qubits |->
                              IF i \in hit THEN eve_basis[i] ELSE alice_bases[i]]
        bits_array == ArrayCopy("alice_bits", "modified_bits")
        bases_array == ArrayCopy("alice_bases", "modified_bases")
        after(arr, before) ==
            IF arr = bits_array THEN modified_bits
            ELSE IF arr = bases_array THEN modified_bases
            ELSE before
    IN  [modified_qubits |-> encode_qubits(modified_bits, modified_bases),
         modified_bases |-> modified_bases,
         interceptions |-> InterceptionCount(hit, alice_bases, eve_basis),
         modified_bases_array |-> bases_array,
         alice_qubits |-> after("alice_qubits", alice_qubits),
         alice_bases |-> after("alice_bases", alice_bases)]

\* ------------------------------------------------------- experiments.py
\* run_bb84: bb84_protocol(num_qubits) plus the two Eve fields.
run_bb84(r) ==
    [qber |-> r.qber,
     alice_key |-> r.alice_key,
     bob_key |-> r.bob_key,
     matching_bases_count |-> r.matching_bases_count,
     total_qubits |-> r.total_qubits,
     eve_present |-> FALSE,
     eve_probability |-> 0]

\* Faulty variant of EveMatchingBases: Bob's bases against the bases Eve left.
EveMatchingModified(alice_bases, modified_bases, bob_bases) ==
    MatchingBases(modified_bases, bob_bases)

\* Basis reconciliation of run_bb84_with_eve (step 5).
EveMatchingBases(alice_bases, modified_bases, bob_bases) ==
    MatchingBases(alice_bases, bob_bases)

\* run_bb84_with_eve on Alice's and Bob's drawn sequences and Eve's draws.
\* alice_bits and alice_bases in the locals are the sequences as drawn; step 5
\* reads the array alice_bases as the call of eve_intercept_resend left it.
run_bb84_with_eve(num_qubits, eve_probability, alice_bits, alice_bases, u, eve_basis, eve_rand, bob_bases, bob_rand) ==
    LET alice_qubits == encode_qubits(alice_bits, alice_bases)
        eve == eve_intercept_resend(alice_qubits, alice_bases, eve_probability,
                                    u, eve_basis, eve_rand)
        bob_bits == measure_qubits(eve.modified_qubits, eve.modified_bases,
                                   bob_bases, bob_rand)
        matching_bases == EveMatchingBases(eve.alice_bases, eve.modified_bases, bob_bases)
        alice_sifted_key == MaskSelect(alice_bits, matching_bases)
        bob_sifted_key == MaskSelect(bob_bits, matching_bases)
    IN  [locals |-> [alice_bits |-> alice_bits,
                     alice_bases |-> alice_bases,
                     alice_qubits_after_eve |-> eve.alice_qubits,
                     alice_bases_after_eve |-> eve.alice_bases,
                     modified_bases_array |-> eve.modified_bases_array,
                     u |-> u,
                     intercepted |-> Intercepted(u, eve_probability),
                     eve_basis |-> eve_basis,
                     eve_rand |-> eve_rand,
                     modified_qubits |-> eve.modified_qubits,
                     modified_bases |-> eve.modified_bases,
                     bob_bases |-> bob_bases,
                     bob_bits |-> bob_bits,
                     bob_rand |-> bob_rand],
         result |-> [qber |-> QBER(alice_sifted_key, bob_sifted_key),
                     alice_key |-> alice_sifted_key,
                     bob_key |-> bob_sifted_key,
                     matching_bases_count |-> CountTrue(matching_bases),
                     total_qubits |-> num_qubits,
                     eve_present |-> TRUE,
                     eve_probability |-> eve_probability,
                     eve_interceptions |-> eve.interceptions]]

\* ------------------------------------------------- experiments_runner.py
\* Exact arithmetic on the fractions standing for floats.
RatAdd(x, y) == Divide(x[1] * y[2] + y[1] * x[2], x[2] * y[2])
RatSub(x, y) == Divide(x[1] * y[2] - y[1] * x[2], x[2] * y[2])
RatMul(x, y) == Divide(x[1] * y[1], x[2] * y[2])

RECURSIVE RatSum(_)
RatSum(xs) == IF Len(xs) = 0 THEN ZeroFloat ELSE RatAdd(xs[1], RatSum(Tail(xs)))

\* np.mean: the sum over the count; nan for an empty list.
Mean(xs) ==
    IF Len(xs) = 0 THEN NaN
    ELSE LET t == RatSum(xs) IN Divide(t[1], t[2] * Len(xs))

\* np.std is the square root of the population variance; the model keeps the
\* variance itself, which is a fraction.
StdSquared(xs) ==
    IF Len(xs) = 0 THEN NaN
    ELSE LET m == Mean(xs)
             d == [j \in 1..Len(xs) |-> RatMul(RatSub(xs[j], m), RatSub(xs[j], m))]
         IN  Mean(d)

\* Faulty variant of AppendPoint: the new point goes to the front.
PrependPoint(rs, point) == <<point>> \o rs

\* results.append(point)
AppendPoint(rs, point) == Append(rs, point)

\* The dictionary run_eve_sweep appends for one probability.
SweepPoint(eve_prob, qs, ls) ==
    [eve_probability |-> eve_prob,
     mean_qber |-> Mean(qs),
     std_qber |-> StdSquared(qs),
     mean_key_length |-> Mean(ls),
     std_key_length |-> StdSquared(ls)]

\* ------------------------------------------------------------- UI/app.py
\* threshold = 11.0, in percent
threshold == 11
\* preview_bits = 64
preview_bits == 64
\* the least key length for AES-128 and the most bits given to the hash
AesKeyBits == 128
HashedKeyBits == 256
\* the step (and least value) of the slider "Number of Qubits"
SliderStep == 100

\* qber_value * 100 <= t on the fraction qber
QberPercentAtMost(qber, t) == 100 * qber[1] <= t * qber[2]

\* seq[:n]
Prefix(seq, n) == SubSeq(seq, 1, Min(n, Len(seq)))

\* derive_aes_key: the first 16 bytes of the SHA-256 digest of the bit string
derive_aes_key(quantum_key) == [sha256_16_of |-> quantum_key]

\* encrypt_message: AES-128-CBC under key with the iv the cipher chose
encrypt_message(message, key) ==
    [ciphertext |-> [key |-> key, iv |-> "iv", plaintext |-> message], iv |-> "iv"]

\* decrypt_message: the plaintext under the key and iv of the encryption
decrypt_message(ciphertext, key, iv) ==
    IF ciphertext.key = key /\ ciphertext.iv = iv THEN ciphertext.plaintext
    ELSE "undecodable"

\* Sections 2 to 4 of main on the dictionary of run_experiment: what the page
\* shows and what it derives. The metrics and plots of sections 1, 2 and 5
\* only display.
main_sections(r, message_input) ==
    LET qber_value == r.qber
        alice_key == r.alice_key
        bob_key == r.bob_key
        secure == QberPercentAtMost(qber_value, threshold)
        long_enough == Len(alice_key) >= AesKeyBits
        aes_key == derive_aes_key(IF Len(alice_key) >= HashedKeyBits
                                  THEN Prefix(alice_key, HashedKeyBits)
                                  ELSE alice_key)
        enc == encrypt_message(message_input, aes_key)
    IN  [verdict |-> IF secure THEN "Secure" ELSE "Insecure",
         discard_warning |-> ~secure,
         keys_match_shown |->
             IF Len(alice_key) >= preview_bits
             THEN Some(Prefix(alice_key, preview_bits) = Prefix(bob_key, preview_bits))
             ELSE None,
         aes_key |-> IF long_enough THEN Some(aes_key) ELSE None,
         ciphertext |-> IF long_enough THEN Some(enc.ciphertext) ELSE None,
         decrypted_message |->
             IF long_enough
             THEN Some(decrypt_message(enc.ciphertext, aes_key, enc.iv))
             ELSE None]

\* ---------------------------------------------------------------- inputs
NumQubitsSet == -1..MaxQubits
TrialsSet == -1..MaxTrials

\* Sweeps run the engine on at most one qubit, over lists of the probabilities
\* 0.0 and 1.0: what a sweep does with a run is the same for any run. So does
\* run_experiment with Eve enabled, which only passes its arguments on to
\* run_bb84_with_eve; the runs on more qubits are those of run_bb84_with_eve.
SweepQubitsSet == {-1, 0, 1}
SweepProbSet == {0, Scale}
ProbLists == UNION {[1..m -> SweepProbSet] : m \in 0..MaxProbs}

\* The worked scenario of the specification (Z = 0, X = 1).
ScenarioBits == <<0, 1, 1, 0, 1, 0, 1, 1>>
ScenarioAliceBases == <<0, 0, 1, 1, 0, 1, 0, 1>>
ScenarioBobBases == <<0, 1, 1, 0, 0, 1, 0, 0>>

\* Pre-supplied sequences of bb84_protocol: None or a bit sequence.
PreSupplied == {None} \cup {Some(s) : s \in BitSeqsUpTo(MaxLen)}
ProtocolCalls ==
    (NumQubitsSet \X PreSupplied \X PreSupplied \X PreSupplied)
    \cup {<<Len(ScenarioBits), Some(ScenarioBits), Some(ScenarioAliceBases),
            Some(ScenarioBobBases)>>}

\* The dashboard: the slider gives num_qubits in steps of SliderStep, the
\* probability slider a value of [0, 1], and only with Eve enabled.
SliderQubits == {SliderStep * s : s \in 1..MaxSliderSteps}
DashboardCalls ==
    {[fn |-> "main", num_qubits |-> n, eve_enabled |-> c[1], eve_probability |-> c[2], message_input |-> "message", run_button |-> b] : n \in SliderQubits, c \in ({FALSE} \X {0}) \cup ({TRUE} \X {0, 1, Scale}), b \in BOOLEAN}

\* A run of run_experiment on hundreds of qubits is taken by the dictionary it
\* returns. With Eve at a probability above 0 every m <= num_qubits is a
\* possible number of matching bases and every set of sifted positions a
\* possible set of errors (each of them intercepted in the other basis);
\* without Eve, or at probability 0, there are no errors. The lengths taken
\* are those around the lengths main tests, the error sets the first and the
\* last e positions for a tenth, a quarter and all of the key.
DashboardKeyLengths(n) ==
    {m \in {0, preview_bits - 1, preview_bits, AesKeyBits - 1, AesKeyBits, HashedKeyBits - 1, HashedKeyBits, n} : m <= n}
ErrorCounts(m, disturbed) == IF disturbed THEN {0, m \div 10, m \div 4, m} ELSE {0}
ErrorPlaces(m, e) == {1..e, (m - e + 1)..m}
DashboardResult(n, m, wrong) ==
    LET alice_key == [i \in 1..m |-> i % 2]
        bob_key == [i \in 1..m |-> IF i \in wrong THEN 1 - alice_key[i] ELSE alice_key[i]]
    IN  [qber |-> QBER(alice_key, bob_key),
         alice_key |-> alice_key,
         bob_key |-> bob_key,
         matching_bases_count |-> m,
         total_qubits |-> n]
DashboardResults(n, eve_enabled, eve_probability) ==
    UNION {UNION {{DashboardResult(n, m, wrong) : wrong \in ErrorPlaces(m, e)} : e \in ErrorCounts(m, eve_enabled /\ eve_probability > 0)} : m \in DashboardKeyLengths(n)}

\* ---------------------------------------------------------------- state
VARIABLES
    pc,          \* "idle", "called", "sweep" (in run_eve_sweep), "done", "error"
    call,        \* the API call made: the function and its arguments
    run,         \* locals of the last protocol run (NoRun before the first)
    result,      \* the dictionary the last protocol run returned
    draws,       \* numpy's process-wide generator, which every np.random call
                 \* reads and advances: the number of values taken from its
                 \* stream since the call began
    k,           \* run_eve_sweep: position of eve_prob in eve_probs
    qbers,       \* run_eve_sweep: qbers
    key_lengths, \* run_eve_sweep: key_lengths
    results,     \* run_eve_sweep: results
    sw_log       \* run_eve_sweep: <<k, eve_probability>> of each engine run made

vars == <<pc, call, run, result, draws, k, qbers, key_lengths, results, sw_log>>

NoRun == [none |-> TRUE]
NoResult == [none |-> TRUE]

Init ==
    /\ pc = "idle"
    /\ call = [fn |-> "none"]
    /\ run = NoRun
    /\ result = NoResult
    /\ draws = 0
    /\ k = 0
    /\ qbers = <<>>
    /\ key_lengths = <<>>
    /\ results = <<>>
    /\ sw_log = <<>>

\* An exception leaves the call: nothing is returned. d values were drawn.
Raise(d) ==
    /\ pc' = "error"
    /\ run' = NoRun
    /\ result' = NoResult
    /\ draws' = draws + d

\* The body of run_bb84_with_eve. np.random.randint(0, 2, n) raises ValueError
\* for n < 0, before it draws anything. Called by run_eve_sweep (in_sweep), the
\* dictionary goes to its two appends and the locals are gone on return.
ExecWithEve(n, p, in_sweep) ==
    IF n < 0 THEN Raise(0) /\ UNCHANGED <<qbers, key_lengths>>
    ELSE
      \E alice_bits \in BitSeqs(n), alice_bases \in BitSeqs(n), u \in [1..n -> UniformFor(p)] :
      \E eve_basis \in [Intercepted(u, p) -> Bit] :
      \E eve_rand \in [EveDraws(alice_bases, eve_basis) -> Bit] :
      \E bob_bases \in BitSeqs(n) :
        LET eve == eve_intercept_resend(encode_qubits(alice_bits, alice_bases), alice_bases, p, u, eve_basis, eve_rand)
        IN
        \E bob_rand \in [MeasureDraws(eve.modified_qubits, eve.modified_bases, bob_bases) -> Bit] :
          LET x == run_bb84_with_eve(n, p, alice_bits, alice_bases, u, eve_basis, eve_rand, bob_bases, bob_rand)
          IN  /\ draws' = draws + 4 * n + Cardinality(DOMAIN eve_basis)
                            + Cardinality(DOMAIN eve_rand) + Cardinality(DOMAIN bob_rand)
              /\ IF in_sweep
                 THEN /\ pc' = "sweep"
                      /\ qbers' = Append(qbers, x.result.qber)
                      /\ key_lengths' = Append(key_lengths, <<Len(x.result.alice_key), 1>>)
                      /\ UNCHANGED <<run, result>>
                 ELSE /\ pc' = "done"
                      /\ run' = x.locals
                      /\ result' = x.result
                      /\ UNCHANGED <<qbers, key_lengths>>

\* The body of bb84_protocol, each sequence pre-supplied or None; wrapped says
\* the caller is run_bb84, which adds its two fields to the dictionary.
ExecProtocol(n, a_bits, a_bases, b_bases, wrapped) ==
    LET drawn(opt) == IF opt = None THEN n ELSE 0 IN
    IF n < 0 /\ None \in {a_bits, a_bases, b_bases} THEN Raise(0)
    ELSE
      \E alice_bits \in (IF a_bits = None THEN BitSeqs(n) ELSE a_bits),
         alice_bases \in (IF a_bases = None THEN BitSeqs(n) ELSE a_bases),
         bob_bases \in (IF b_bases = None THEN BitSeqs(n) ELSE b_bases) :
        IF ~CanStack(alice_bits, alice_bases)
        THEN \* encode_qubits raises before Bob's bases are drawn
             Raise(drawn(a_bits) + drawn(a_bases))
        ELSE IF Len(bob_bases) # Len(alice_bits)
        THEN \* measure_qubits indexes past bob_bases, or the comparison
             \* alice_bases == bob_bases raises on the shapes
             Raise(drawn(a_bits) + drawn(a_bases) + drawn(b_bases)
                   + Cardinality(MeasureDraws(encode_qubits(alice_bits, alice_bases),
                                              alice_bases, bob_bases)))
        ELSE
          \E bob_rand \in [MeasureDraws(encode_qubits(alice_bits, alice_bases),
                                        alice_bases, bob_bases) -> Bit] :
            LET x == bb84_protocol(n, alice_bits, alice_bases, bob_bases, bob_rand)
            IN  /\ pc' = "done"
                /\ run' = x.locals
                /\ result' = IF wrapped THEN run_bb84(x.result) ELSE x.result
                /\ draws' = draws + drawn(a_bits) + drawn(a_bases) + drawn(b_bases)
                              + Cardinality(DOMAIN bob_rand)

\* ---------------------------------------------------------------- API calls
ApiCalls ==
    {[fn |-> "bb84_protocol", num_qubits |-> c[1], alice_bits |-> c[2], alice_bases |-> c[3], bob_bases |-> c[4]] : c \in ProtocolCalls}
    \cup {[fn |-> "run_bb84", num_qubits |-> n] : n \in NumQubitsSet}
    \cup {[fn |-> "run_bb84_with_eve", num_qubits |-> n, eve_probability |-> p] : n \in NumQubitsSet, p \in ProbSet}
    \cup {[fn |-> "run_experiment", num_qubits |-> n, eve_enabled |-> FALSE, eve_probability |-> p] : n \in NumQubitsSet, p \in ProbSet}
    \cup {[fn |-> "run_experiment", num_qubits |-> n, eve_enabled |-> TRUE, eve_probability |-> p] : n \in SweepQubitsSet, p \in ProbSet}
    \cup {[fn |-> "run_eve_sweep", num_qubits |-> n, eve_probs |-> ps, trials |-> t] : n \in SweepQubitsSet, ps \in ProbLists, t \in TrialsSet}
    \cup DashboardCalls

\* The caller makes one call of the API with arguments of its choice.
Call ==
    /\ pc = "idle"
    /\ \E c \in ApiCalls : call' = c
    /\ pc' = "called"
    /\ UNCHANGED <<run, result, draws, k, qbers, key_lengths, results, sw_log>>

BB84Protocol ==
    /\ pc = "called"
    /\ call.fn = "bb84_protocol"
    /\ ExecProtocol(call.num_qubits, call.alice_bits, call.alice_bases, call.bob_bases, FALSE)
    /\ UNCHANGED <<call, k, qbers, key_lengths, results, sw_log>>

RunBB84 ==
    /\ pc = "called"
    /\ call.fn = "run_bb84"
    /\ ExecProtocol(call.num_qubits, None, None, None, TRUE)
    /\ UNCHANGED <<call, k, qbers, key_lengths, results, sw_log>>

RunBB84WithEve ==
    /\ pc = "called"
    /\ call.fn = "run_bb84_with_eve"
    /\ ExecWithEve(call.num_qubits, call.eve_probability, FALSE)
    /\ UNCHANGED <<call, k, results, sw_log>>

RunExperiment ==
    /\ pc = "called"
    /\ call.fn = "run_experiment"
    /\ IF call.eve_enabled
       THEN ExecWithEve(call.num_qubits, call.eve_probability, FALSE)
       ELSE ExecProtocol(call.num_qubits, None, None, None, TRUE) /\ UNCHANGED <<qbers, key_lengths>>
    /\ UNCHANGED <<call, k, results, sw_log>>

\* run_eve_sweep: results = [] and the first eve_prob
SweepEnter ==
    /\ pc = "called"
    /\ call.fn = "run_eve_sweep"
    /\ pc' = "sweep"
    /\ k' = 1
    /\ results' = <<>>
    /\ UNCHANGED <<call, run, result, draws, qbers, key_lengths, sw_log>>

\* one iteration of the inner loop: a run of the engine and the two appends
SweepTrial ==
    /\ pc = "sweep"
    /\ k <= Len(call.eve_probs)
    /\ Len(qbers) < call.trials
    /\ ExecWithEve(call.num_qubits, call.eve_probs[k], TRUE)
    /\ sw_log' = Append(sw_log, <<k, call.eve_probs[k]>>)
    /\ UNCHANGED <<call, k, results>>

\* range(trials) is exhausted: results.append, next eve_prob with fresh lists
SweepAppend ==
    /\ pc = "sweep"
    /\ k <= Len(call.eve_probs)
    /\ Len(qbers) >= call.trials
    /\ results' = AppendPoint(results, SweepPoint(call.eve_probs[k], qbers, key_lengths))
    /\ k' = k + 1
    /\ qbers' = <<>>
    /\ key_lengths' = <<>>
    /\ UNCHANGED <<pc, call, run, result, draws, sw_log>>

\* eve_probs is exhausted: return results
SweepReturn ==
    /\ pc = "sweep"
    /\ k > Len(call.eve_probs)
    /\ pc' = "done"
    /\ UNCHANGED <<call, run, result, draws, k, qbers, key_lengths, results, sw_log>>

\* One execution of main (UI/app.py) in a new session: nothing is shown until
\* the button is pressed; then run_experiment runs and sections 1 to 5 are
\* rendered. result is st.session_state.last_result, run what the page holds.
\* The values main's runs take from the generator are not counted in draws,
\* and the sweep of section 5 goes to its two plots only.
Main ==
    /\ pc = "called"
    /\ call.fn = "main"
    /\ pc' = "done"
    /\ IF call.run_button
       THEN \E r \in DashboardResults(call.num_qubits, call.eve_enabled, call.eve_probability) :
                /\ result' = r
                /\ run' = main_sections(r, call.message_input)
       ELSE UNCHANGED <<run, result>>
    /\ UNCHANGED <<call, draws, k, qbers, key_lengths, results, sw_log>>

Next ==
    \/ Call
    \/ Main
    \/ BB84Protocol
    \/ RunBB84
    \/ RunBB84WithEve
    \/ RunExperiment
    \/ SweepEnter
    \/ SweepTrial
    \/ SweepAppend
    \/ SweepReturn

Spec == Init /\ [][Next]_vars

\* ====================================================================
\* Properties
\* ====================================================================
SingleRunFns == {"bb84_protocol", "run_bb84", "run_bb84_with_eve", "run_experiment"}

\* a protocol run has returned its dictionary
Returned == pc = "done" /\ call.fn \in SingleRunFns

\* the call runs the engine with Eve / without Eve
WithEve ==
    \/ call.fn = "run_bb84_with_eve"
    \/ call.fn = "run_experiment" /\ call.eve_enabled
WithoutEve ==
    \/ call.fn \in {"bb84_protocol", "run_bb84"}
    \/ call.fn = "run_experiment" /\ ~call.eve_enabled

\* the indices of the run at which Alice's own basis equals Bob's
SiftedIndices == {i \in 1..Len(run.alice_bases) : run.alice_bases[i] = run.bob_bases[i]}

\* key is arr restricted to the index set idx, in ascending index order:
\* the j-th smallest index of idx supplies key[j].
Rank(i, idx) == Cardinality({j \in idx : j <= i})
IsSubsequenceAt(key, arr, idx) ==
    /\ Len(key) = Cardinality(idx)
    /\ \A i \in idx : key[Rank(i, idx)] = arr[i]

\* C1: a run without Eve that returns has qber exactly 0.0 and bob_key equal
\* to alice_key element by element, whatever was drawn.
C1_NoEveQberZero ==
    (Returned /\ WithoutEve) =>
        /\ result.qber = ZeroFloat
        /\ result.bob_key = result.alice_key

\* a run without Eve kept a key although Bob measured some qubit in the
\* other basis and drew a bit different from Alice's there
C1_Witness ==
    /\ Returned /\ WithoutEve
    /\ call.fn = "run_experiment"
    /\ Len(result.alice_key) >= 1
    /\ \E i \in DOMAIN run.bob_rand : run.bob_bits[i] # run.alice_bits[i]

\* C2: every returned dictionary has len(alice_key) = len(bob_key) =
\* matching_bases_count <= total_qubits, pre-supplied sequences included
\* (stated for the calls with num_qubits >= 0).
C2_KeyLengthsWithinTotal ==
    (Returned /\ call.num_qubits >= 0) =>
        /\ Len(result.alice_key) = Len(result.bob_key)
        /\ Len(result.bob_key) = result.matching_bases_count
        /\ result.matching_bases_count <= result.total_qubits

\* C3: with Eve, index i is kept iff Alice's original basis equals Bob's basis,
\* whatever basis Eve left at i, and alice_key is Alice's original bits there.
C3_SiftOnOriginalBases ==
    (Returned /\ WithEve) =>
        /\ result.matching_bases_count = Cardinality(SiftedIndices)
        /\ IsSubsequenceAt(result.alice_key, run.alice_bits, SiftedIndices)
        /\ IsSubsequenceAt(result.bob_key, run.bob_bits, SiftedIndices)

\* Eve replaced the basis and the bit of a qubit that is kept, and made the
\* recorded basis of a dropped qubit equal to Bob's
C3_Witness ==
    /\ Returned /\ WithEve
    /\ \E i \in SiftedIndices :
        /\ run.modified_bases[i] # run.alice_bases[i]
        /\ run.modified_qubits[i][1] # run.alice_bits[i]
    /\ \E i \in 1..Len(run.alice_bases) :
        /\ i \notin SiftedIndices
        /\ run.modified_bases[i] = run.bob_bases[i]

\* C4: with eve_probability = 0.0 nothing is intercepted, Bob receives Alice's
\* qubits and basis record unchanged, qber is 0.0, and the dictionary agrees
\* with the one bb84_protocol returns on the same choices of Alice and Bob.
C4_ZeroProbabilityIsNoEve ==
    (Returned /\ WithEve /\ call.eve_probability = 0) =>
        LET plain == bb84_protocol(call.num_qubits, run.alice_bits, run.alice_bases, run.bob_bases, run.bob_rand).result
        IN  /\ result.eve_interceptions = 0
            /\ run.modified_qubits = encode_qubits(run.alice_bits, run.alice_bases)
            /\ run.modified_bases = run.alice_bases
            /\ result.qber = ZeroFloat
            /\ result.qber = plain.qber
            /\ result.alice_key = plain.alice_key
            /\ result.bob_key = plain.bob_key
            /\ result.matching_bases_count = plain.matching_bases_count

C4_Witness ==
    /\ Returned /\ call.fn = "run_bb84_with_eve" /\ call.eve_probability = 0
    /\ call.num_qubits = MaxQubits
    /\ Len(result.alice_key) >= 1
    /\ DOMAIN run.bob_rand # {}

\* What Bob reads from one qubit (bit a, basis ab) that Eve intercepts with
\* basis eb, measuring it in basis bb: er and br are the values Eve and Bob
\* draw if their measurement is in the other basis.
BobBitAfterEve(a, ab, bb, eb, er, br) ==
    LET eve == eve_intercept_resend(<<<<a, ab>>>>, <<ab>>, Scale, <<0>>, <<eb>>, <<er>>)
    IN  measure_qubits(eve.modified_qubits, eve.modified_bases, <<bb>>, <<br>>)[1]

\* (Eve's basis, Eve's random outcome, Bob's random outcome)
Combos == Bit \X Bit \X Bit
MismatchCombos(ab) == {c \in Combos : c[1] # ab}
ErrorCombos(a, ab) == {c \in Combos : BobBitAfterEve(a, ab, ab, c[1], c[2], c[3]) # a}

ValueAt(f, i) == IF i \in DOMAIN f THEN f[i] ELSE 0

\* C5: with eve_probability = 1.0 every qubit is intercepted; at a sifted index
\* half of the combinations have Eve's basis different from Alice's, exactly
\* half of those make Bob's bit differ from Alice's, a quarter of all; and the
\* run's own bit at that index is the one its combination gives.
C5_QuarterOfCombinationsErr ==
    (Returned /\ WithEve /\ call.eve_probability = Scale) =>
        /\ result.eve_interceptions = call.num_qubits
        /\ run.intercepted = 1..call.num_qubits
        /\ \A i \in SiftedIndices :
            LET a == run.alice_bits[i]
                ab == run.alice_bases[i]
            IN  /\ 2 * Cardinality(MismatchCombos(ab)) = Cardinality(Combos)
                /\ ErrorCombos(a, ab) \subseteq MismatchCombos(ab)
                /\ 2 * Cardinality(ErrorCombos(a, ab)) = Cardinality(MismatchCombos(ab))
                /\ 4 * Cardinality(ErrorCombos(a, ab)) = Cardinality(Combos)
                /\ run.bob_bits[i] = BobBitAfterEve(a, ab, run.bob_bases[i], run.eve_basis[i], ValueAt(run.eve_rand, i), ValueAt(run.bob_rand, i))

\* every qubit intercepted, one sifted index in error and one without error
\* although Eve used the other basis
C5_Witness ==
    /\ Returned /\ WithEve /\ call.eve_probability = Scale
    /\ \E i \in SiftedIndices : run.bob_bits[i] # run.alice_bits[i]
    /\ \E i \in SiftedIndices :
        /\ run.eve_basis[i] # run.alice_bases[i]
        /\ run.bob_bits[i] = run.alice_bits[i]

\* the call has an invalid parameter: num_qubits < 0 or eve_probability
\* outside [0, 1]
InvalidParameter ==
    /\ call.fn \in {"run_bb84", "run_bb84_with_eve", "run_experiment"}
    /\ \/ call.num_qubits < 0
       \/ call.fn # "run_bb84" /\ ~ValidProb(call.eve_probability)

\* C6: a single run called with an invalid parameter is rejected with an error
\* before any random value is drawn, and returns no dictionary.
C6_InvalidParameterRejected ==
    InvalidParameter =>
        /\ pc \in {"called", "error"}
        /\ draws = 0
        /\ result = NoResult

\* C7: run_eve_sweep with trials < 1 is rejected: it never returns a list of
\* points computed from zero trials.
C7_NoTrialsRejected ==
    (call.fn = "run_eve_sweep" /\ call.num_qubits >= 0 /\ call.trials < 1) => ~(pc = "done" /\ Len(results) >= 1)

\* n copies of x
RECURSIVE Repeat(_, _)
Repeat(x, n) == IF n <= 0 THEN <<>> ELSE <<x>> \o Repeat(x, n - 1)

\* the engine runs a sweep over ps[from..] makes: trials runs at each position
RECURSIVE ExpectedRuns(_, _, _)
ExpectedRuns(ps, t, from) ==
    IF from > Len(ps) THEN <<>>
    ELSE Repeat(<<from, ps[from]>>, t) \o ExpectedRuns(ps, t, from + 1)

\* C8: a sweep that returns gives one point per element of eve_probs, the k-th
\* with the k-th input probability, each from exactly trials runs of the
\* engine with Eve at that probability (trials >= 0: a count of runs).
C8_OnePointPerProbability ==
    (pc = "done" /\ call.fn = "run_eve_sweep" /\ call.trials >= 0) =>
        /\ Len(results) = Len(call.eve_probs)
        /\ \A j \in 1..Len(results) :
            results[j].eve_probability = call.eve_probs[j]
        /\ sw_log = ExpectedRuns(call.eve_probs, call.trials, 1)
        /\ \A j \in 1..Len(results) :
            call.trials >= 1 => results[j].mean_key_length # NaN

\* a returned sweep over a descending list with more than one trial a point,
\* whose runs did not all give the same key length
C8_Witness ==
    /\ pc = "done" /\ call.fn = "run_eve_sweep"
    /\ call.trials = MaxTrials
    /\ call.num_qubits = 1
    /\ Len(call.eve_probs) = MaxProbs
    /\ call.eve_probs[1] > call.eve_probs[2]
    /\ results[1].mean_key_length # results[2].mean_key_length

ScenarioCall ==
    /\ call.fn = "bb84_protocol"
    /\ call.alice_bits = Some(ScenarioBits)
    /\ call.alice_bases = Some(ScenarioAliceBases)
    /\ call.bob_bases = Some(ScenarioBobBases)

\* C9: alice_key and bob_key are Alice's bits and Bob's measured bits at
\* exactly the indices where their bases agree, in ascending index order;
\* the worked scenario gives positions 0,2,4,5,6 and both keys [0,1,1,0,1].
C9_KeysAreSiftedSubsequences ==
    Returned =>
        /\ IsSubsequenceAt(result.alice_key, run.alice_bits, SiftedIndices)
        /\ IsSubsequenceAt(result.bob_key, run.bob_bits, SiftedIndices)
        /\ ScenarioCall =>
            /\ SiftedIndices = {1, 3, 5, 6, 7}
            /\ result.alice_key = <<0, 1, 1, 0, 1>>
            /\ result.bob_key = <<0, 1, 1, 0, 1>>
            /\ result.qber = ZeroFloat

\* the worked scenario has returned, Bob having drawn 1 at every index he
\* measured in the other basis
C9_Witness ==
    /\ Returned /\ ScenarioCall
    /\ DOMAIN run.bob_rand = {2, 4, 8}
    /\ \A i \in DOMAIN run.bob_rand : run.bob_rand[i] = 1

\* C10: a run with num_qubits >= 0 never raises; no returned qber is the nan
\* of a division by zero; and when no index has matching bases (num_qubits = 0
\* included) qber is 0.0, both keys are empty and matching_bases_count is 0.
C10_EmptyKeyGivesZero ==
    /\ (call.fn \in {"run_bb84", "run_bb84_with_eve", "run_experiment"} /\ call.num_qubits >= 0) => pc # "error"
    /\ Returned => result.qber # NaN
    /\ (Returned /\ SiftedIndices = {}) =>
        /\ result.qber = ZeroFloat
        /\ result.alice_key = <<>>
        /\ result.bob_key = <<>>
        /\ result.matching_bases_count = 0

\* Eve intercepted, Bob chose the other basis at every one of the qubits
C10_Witness ==
    /\ Returned /\ WithEve
    /\ call.num_qubits = MaxQubits
    /\ SiftedIndices = {}
    /\ result.eve_interceptions >= 1

\* C11: a run of bb84_protocol without Eve is a function of num_qubits and the
\* three sequences alone: run again on the same sequences with any other
\* outcomes of Bob's draws at the mismatched indices, it returns the same qber,
\* alice_key, bob_key, matching_bases_count and total_qubits.
C11_SameSequencesSameResult ==
    (Returned /\ WithoutEve) =>
        \A bob_rand \in [DOMAIN run.bob_rand -> Bit] :
            LET again == bb84_protocol(call.num_qubits, run.alice_bits, run.alice_bases, run.bob_bases, bob_rand).result
            IN  /\ again.qber = result.qber
                /\ again.alice_key = result.alice_key
                /\ again.bob_key = result.bob_key
                /\ again.matching_bases_count = result.matching_bases_count
                /\ again.total_qubits = result.total_qubits

\* bb84_protocol returned on three pre-supplied sequences with a kept index,
\* Bob having drawn at a mismatched index a bit that is not Alice's
C11_Witness ==
    /\ Returned /\ call.fn = "bb84_protocol"
    /\ None \notin {call.alice_bits, call.alice_bases, call.bob_bases}
    /\ Len(result.alice_key) >= 1
    /\ \E i \in DOMAIN run.bob_rand : run.bob_rand[i] # run.alice_bits[i]

\* C12: eve_intercept_resend leaves its arguments as they were: after the call
\* the caller's alice_qubits and alice_bases hold what they held before it,
\* whatever Eve intercepted and drew; the returned bases are another array
\* than alice_bases, and the returned qubits and bases have the length N of
\* the input.
C12_EveLeavesInputsUnchanged ==
    (Returned /\ WithEve) =>
        /\ run.alice_qubits_after_eve = encode_qubits(run.alice_bits, run.alice_bases)
        /\ run.alice_bases_after_eve = run.alice_bases
        /\ run.modified_bases_array \notin {"alice_bases", "alice_qubits"}
        /\ Len(run.modified_qubits) = call.num_qubits
        /\ Len(run.modified_bases) = call.num_qubits
        /\ Len(run.alice_qubits_after_eve) = call.num_qubits

\* Eve wrote another basis at one index and another bit at one index of her
\* arrays, and passed one qubit through
C12_Witness ==
    /\ Returned /\ WithEve
    /\ \E i \in run.intercepted : run.modified_bases[i] # run.alice_bases[i]
    /\ \E i \in run.intercepted : run.modified_qubits[i][1] # run.alice_bits[i]
    /\ run.intercepted # 1..call.num_qubits

\* the indices at which the basis Eve left differs from Alice's
ChangedBases == {i \in 1..Len(run.alice_bases) : run.modified_bases[i] # run.alice_bases[i]}

\* C13: eve_interceptions is the number of indices whose draw was below
\* eve_probability, between 0 and N; the indices whose recorded basis differs
\* from Alice's are among the intercepted ones, so they are at most that many.
C13_CountIsDrawsBelowProbability ==
    (Returned /\ WithEve) =>
        /\ result.eve_interceptions = Cardinality({i \in 1..Len(run.u) : run.u[i] < call.eve_probability})
        /\ 0 <= result.eve_interceptions
        /\ result.eve_interceptions <= call.num_qubits
        /\ ChangedBases \subseteq run.intercepted
        /\ Cardinality(ChangedBases) <= result.eve_interceptions

\* Eve intercepted every qubit and chose Alice's basis at one of them: fewer
\* bases changed than qubits intercepted
C13_Witness ==
    /\ Returned /\ WithEve
    /\ result.eve_interceptions = MaxQubits
    /\ \E i \in run.intercepted : run.eve_basis[i] = run.alice_bases[i]
    /\ ChangedBases # {}
    /\ Cardinality(ChangedBases) < result.eve_interceptions

\* C14: a qubit that is not intercepted leaves eve_intercept_resend with
\* Alice's bit and basis, in the qubit row and in the basis record; an
\* intercepted one leaves with Eve's basis and the bit Eve observed, which is
\* Alice's bit when Eve's basis is Alice's and the value Eve drew otherwise.
C14_PassThroughOrEveQubit ==
    (Returned /\ WithEve) =>
        \A i \in 1..call.num_qubits :
            IF i \notin run.intercepted
            THEN /\ run.modified_qubits[i] = <<run.alice_bits[i], run.alice_bases[i]>>
                 /\ run.modified_bases[i] = run.alice_bases[i]
            ELSE /\ run.modified_bases[i] = run.eve_basis[i]
                 /\ run.modified_qubits[i][2] = run.eve_basis[i]
                 /\ IF run.eve_basis[i] = run.alice_bases[i]
                    THEN run.modified_qubits[i][1] = run.alice_bits[i]
                    ELSE run.modified_qubits[i][1] = run.eve_rand[i]

\* one qubit passed through, and Eve measured another in the other basis and
\* observed the opposite of Alice's bit
C14_Witness ==
    /\ Returned /\ WithEve
    /\ \E i \in 1..call.num_qubits : i \notin run.intercepted
    /\ \E i \in DOMAIN run.eve_rand : run.eve_rand[i] # run.alice_bits[i]

\* what measure_qubits was given in the run: the recorded bases and the
\* encoded bits of the qubits that reached Bob
ReceivedBases == IF WithEve THEN run.modified_bases ELSE run.alice_bases
ReceivedBits ==
    IF WithEve THEN [i \in 1..Len(run.modified_qubits) |-> run.modified_qubits[i][1]]
    ELSE run.alice_bits

\* the outcomes measure_qubits can give for one qubit (bit, basis) measured
\* in basis bob_basis, over the values it may draw
Outcomes(bit, basis, bob_basis) ==
    {measure_qubits(<<<<bit, basis>>>>, <<basis>>, <<bob_basis>>, <<r>>)[1] : r \in Bit}

\* C15: where Bob's basis equals the recorded basis of the qubit his bit is
\* the encoded bit and nothing is drawn; where it differs exactly one value is
\* drawn, it is his bit, and the possible outcomes are 0 and 1 both for an
\* encoded 0 and for an encoded 1. A call of bb84_protocol on three
\* pre-supplied sequences draws nothing else. Eve's measurement draws by the
\* same rule.
C15_MeasurementRule ==
    Returned =>
        /\ \A i \in 1..Len(run.bob_bits) :
            IF ReceivedBases[i] = run.bob_bases[i]
            THEN /\ run.bob_bits[i] = ReceivedBits[i]
                 /\ i \notin DOMAIN run.bob_rand
                 /\ \A b \in Bit : Outcomes(b, ReceivedBases[i], run.bob_bases[i]) = {b}
            ELSE /\ i \in DOMAIN run.bob_rand
                 /\ run.bob_bits[i] = run.bob_rand[i]
                 /\ \A b \in Bit : Outcomes(b, ReceivedBases[i], run.bob_bases[i]) = Bit
        /\ DOMAIN run.bob_rand \subseteq 1..Len(run.bob_bits)
        /\ (call.fn = "bb84_protocol" /\ None \notin {call.alice_bits, call.alice_bases, call.bob_bases}) =>
            draws = Cardinality({i \in 1..Len(run.bob_bits) : ReceivedBases[i] # run.bob_bases[i]})
        /\ WithEve =>
            DOMAIN run.eve_rand = {i \in run.intercepted : run.eve_basis[i] # run.alice_bases[i]}

\* Bob measured one qubit in the basis Eve left, which is not Alice's, and read
\* Eve's bit without a draw; he measured another in the other basis and drew
C15_Witness ==
    /\ Returned /\ WithEve
    /\ \E i \in 1..Len(run.bob_bits) :
        /\ run.bob_bases[i] = run.modified_bases[i]
        /\ run.bob_bases[i] # run.alice_bases[i]
        /\ run.bob_bits[i] # run.alice_bits[i]
    /\ \E i \in DOMAIN run.bob_rand : run.bob_rand[i] # ReceivedBits[i]

\* a trial of the sweep is about to run
TrialPending == pc = "sweep" /\ k <= Len(call.eve_probs) /\ Len(qbers) < call.trials

\* C16: trials share no mutable state: nothing a trial reads has been written
\* by another trial. Whenever a trial of a sweep is about to run, the
\* generator it draws from is in the state in which the first trial found it.
C16_TrialsShareNoState ==
    TrialPending => draws = 0

\* the sifted indices at which Bob's bit is not Alice's
ErrorIndices == {i \in SiftedIndices : run.bob_bits[i] # run.alice_bits[i]}

\* C17: with Eve, Bob's bit differs from Alice's at a sifted index only if
\* that index was intercepted and Eve measured it in the other basis; the
\* errors counted in the sifted keys are those indices, so they are at most
\* eve_interceptions, and a run without interceptions has qber 0.0.
C17_ErrorsOnlyWhereEveDisturbed ==
    (Returned /\ WithEve) =>
        /\ \A i \in ErrorIndices :
            /\ i \in run.intercepted
            /\ run.eve_basis[i] # run.alice_bases[i]
        /\ Errors(result.alice_key, result.bob_key) = Cardinality(ErrorIndices)
        /\ Errors(result.alice_key, result.bob_key) <= result.eve_interceptions
        /\ result.eve_interceptions = 0 => result.qber = ZeroFloat

\* at probability one half Eve intercepted every qubit; one sifted index is
\* in error, fewer errors than interceptions
C17_Witness ==
    /\ Returned /\ WithEve
    /\ call.eve_probability = 1
    /\ ErrorIndices # {}
    /\ result.qber # ZeroFloat
    /\ Cardinality(ErrorIndices) < result.eve_interceptions

\* C18: the dashboard discards a key whose QBER is above the threshold of 11%:
\* when the result shown has qber > 0.11, no AES key is derived from
\* alice_key and no message is encrypted.
C18_InsecureKeyDiscarded ==
    (pc = "done" /\ call.fn = "main" /\ call.run_button /\ ~QberPercentAtMost(result.qber, threshold)) =>
        /\ run.aes_key = None
        /\ run.ciphertext = None

====
